---- MODULE Spec2Model ----
(***************************************************************************)
(* Model of scripts/fetch_and_build.py: the Bluesky author feed is paged   *)
(* through the public API, filtered to the author's own posts, sorted      *)
(* newest first, grouped by month and written as static pages into docs/.  *)
(*                                                                         *)
(* Strings are sequences of tokens: "/" is the one separator character of  *)
(* a resource identifier, every other token is a slash-free chunk.         *)
(* None is <<>> and a present value x is <<x>>.                            *)
(* A datetime is its wall-clock fields plus "aware" and the UTC offset in  *)
(* hours ("off", meaningful when aware).                                   *)
(***************************************************************************)
EXTENDS Integers, Sequences, FiniteSets, TLC

\* Most pages one run asks the upstream for; the last one allowed ends the feed.
MaxPages == 3
\* Most feed items the scaled-down upstream holds for the author, over all pages.
MaxItems == 2

None == <<>>
Some(x) == <<x>>

POST_TYPE == "app.bsky.feed.post"

(* ------------------------- datetime library ------------------------- *)

IsLeap(y) == (y % 4 = 0 /\ y % 100 # 0) \/ y % 400 = 0

DaysInMonth(y, m) ==
  IF m = 2 THEN (IF IsLeap(y) THEN 29 ELSE 28)
  ELSE IF m \in {4, 6, 9, 11} THEN 30 ELSE 31

\* days of the proleptic Gregorian calendar before 1 January of year y
DaysBeforeYear(y) ==
  365 * (y - 1) + ((y - 1) \div 4) - ((y - 1) \div 100) + ((y - 1) \div 400)

RECURSIVE DaysBeforeMonth(_, _)
DaysBeforeMonth(y, m) ==
  IF m = 1 THEN 0 ELSE DaysBeforeMonth(y, m - 1) + DaysInMonth(y, m - 1)

\* date.toordinal()
Ordinal(y, m, d) == DaysBeforeYear(y) + DaysBeforeMonth(y, m) + d

\* wall clock -> hours on the wall clock's own time line
WallHours(dt) == Ordinal(dt.y, dt.mo, dt.d) * 24 + dt.h

\* date.fromordinal() followed by the hour of day
FromWallHours(n, mi, off) ==
  LET ord == n \div 24
      y   == CHOOSE yy \in (ord \div 366)..((ord \div 365) + 1) :
               DaysBeforeYear(yy) < ord /\ ord <= DaysBeforeYear(yy + 1)
      mo  == CHOOSE mm \in 1..12 :
               /\ DaysBeforeMonth(y, mm) < ord - DaysBeforeYear(y)
               /\ ord - DaysBeforeYear(y) <= DaysBeforeMonth(y, mm) + DaysInMonth(y, mm)
  IN  [y |-> y, mo |-> mo, d |-> ord - DaysBeforeYear(y) - DaysBeforeMonth(y, mo),
       h |-> n % 24, mi |-> mi, aware |-> TRUE, off |-> off]

\* the instant of a datetime in hours of UTC; a naive one is read as system local time
UtcHours(dt, tz) == WallHours(dt) - (IF dt.aware THEN dt.off ELSE tz)

\* datetime.astimezone(timezone(timedelta(hours=off)))
AsTimezone(dt, off, tz) == FromWallHours(UtcHours(dt, tz) + off, dt.mi, off)

\* what datetime comparison orders by: the instant when aware, the wall clock when naive
DtKey(dt) == <<WallHours(dt) - (IF dt.aware THEN dt.off ELSE 0), dt.mi>>

\* datetime.__lt__ of two datetimes that are both aware or both naive
DtLess(a, b) ==
  \/ DtKey(a)[1] < DtKey(b)[1]
  \/ (DtKey(a)[1] = DtKey(b)[1] /\ DtKey(a)[2] < DtKey(b)[2])

\* comparing a naive with an aware datetime raises TypeError
Comparable(a, b) == a.aware = b.aware

(* ------------------------------ utils ------------------------------- *)

IndexOf(s, c) == CHOOSE i \in 1..Len(s) : s[i] = c /\ \A j \in 1..(i - 1) : s[j] # c

\* str.split(sep, maxsplit): a list of at most maxsplit + 1 parts
RECURSIVE Split(_, _, _)
Split(s, sep, maxsplit) ==
  IF maxsplit = 0 \/ \A i \in 1..Len(s) : s[i] # sep THEN <<s>>
  ELSE <<SubSeq(s, 1, IndexOf(s, sep) - 1)>>
         \o Split(SubSeq(s, IndexOf(s, sep) + 1, Len(s)), sep, maxsplit - 1)

at_uri_to_post_url(uri) ==
  IF uri = None THEN None                      \* None.split: AttributeError
  ELSE LET parts == Split(uri[1], "/", 3)
       IN  IF Len(parts) # 4 THEN None         \* unpacking: ValueError
           ELSE LET did  == parts[2]
                    rkey == parts[4]
                IN  Some(<<"https://bsky.app/profile/">> \o did \o <<"/post/">> \o rkey)

\* faulty variant: the "reason" test is missing
is_own_original_post_NoReasonTest(item) ==
  IF item.post = None THEN FALSE
  ELSE item.post[1].record.type = POST_TYPE

is_own_original_post(item) ==
  IF item.reason THEN FALSE
  ELSE IF item.post = None THEN FALSE
  ELSE item.post[1].record.type = POST_TYPE

\* html.escape of one character
EscapeChar(c) ==
  CASE c = "&" -> "&amp;"
    [] c = "<" -> "&lt;"
    [] c = ">" -> "&gt;"
    [] c = "\"" -> "&quot;"
    [] c = "'" -> "&#x27;"
    [] OTHER -> c

extract_text(rec) ==
  LET t == IF rec.text = None THEN <<>> ELSE rec.text[1]
  IN  [i \in 1..Len(t) |-> EscapeChar(t[i])]

\* fromisoformat(ts.replace("Z", "+00:00")); None when createdAt is falsy or does not parse
extract_created_at(rec) ==
  IF rec.createdAt = None THEN None
  ELSE LET ts == rec.createdAt[1]
       IN  IF ~ts.iso THEN None
           ELSE Some([y |-> ts.y, mo |-> ts.mo, d |-> ts.d, h |-> ts.h, mi |-> ts.mi,
                      aware |-> ts.zone # "none",
                      off |-> IF ts.zone = "offset" THEN ts.off ELSE 0])

\* faulty variant: the key is taken from the +09:00 clock that the page displays
month_key_Displayed(dt) ==
  <<AsTimezone(dt, 9, 0).y, AsTimezone(dt, 9, 0).mo>>

\* strftime("%Y-%m"): the year and month of the datetime's own wall clock
month_key(dt) == <<dt.y, dt.mo>>

\* strftime("%Y-%m-%d %H:%M") of the datetime moved to +09:00
nice_date(dt, tz) ==
  LET jst == AsTimezone(dt, 9, tz)
  IN  <<jst.y, jst.mo, jst.d, jst.h, jst.mi>>

(* --------------------------- upstream data -------------------------- *)

Ts(y, mo, d, h, mi, zone, off) ==
  [iso |-> TRUE, y |-> y, mo |-> mo, d |-> d, h |-> h, mi |-> mi, zone |-> zone, off |-> off]

\* a createdAt string that fromisoformat rejects
BadTs == [iso |-> FALSE, y |-> 0, mo |-> 0, d |-> 0, h |-> 0, mi |-> 0, zone |-> "none", off |-> 0]

Item(reason, post, reply) == [reason |-> reason, post |-> post, reply |-> reply]

PostView(uri, type, createdAt, text) ==
  [uri |-> uri, record |-> [type |-> type, createdAt |-> createdAt, text |-> text]]

AtUri(did, collection, rkey) == <<"at:", "/", "/", did, "/", collection, "/", rkey>>

GoodUri == Some(AtUri("did:plc:abc", POST_TYPE, "3kxyz"))

PlainPost ==
  Item(FALSE, Some(PostView(GoodUri, POST_TYPE, Some(Ts(2024, 3, 15, 10, 0, "Z", 0)),
                            Some(<<"hello">>))), "absent")

\* a repost: a complete post payload under a "reason" annotation
Repost ==
  Item(TRUE, Some(PostView(GoodUri, POST_TYPE, Some(Ts(2024, 3, 20, 8, 0, "Z", 0)),
                           Some(<<"boosted">>))), "absent")

\* a reply whose createdAt has no timezone and whose uri is too short
NaiveReply ==
  Item(FALSE, Some(PostView(Some(<<"at:", "/", "/", "did:plc:abc">>), POST_TYPE,
                            Some(Ts(2024, 3, 15, 10, 0, "none", 0)),
                            Some(<<"a", "<", "b">>))), "obj")

\* 2024-02-01T03:30+09:00 is 2024-01-31T18:30Z; no uri, no text
OffsetPost ==
  Item(FALSE, Some(PostView(None, POST_TYPE, Some(Ts(2024, 2, 1, 3, 30, "offset", 9)),
                            None)), "null")

\* 2024-01-31T20:00Z is 2024-02-01 05:00 at +09:00
LateJanPost ==
  Item(FALSE, Some(PostView(GoodUri, POST_TYPE, Some(Ts(2024, 1, 31, 20, 0, "Z", 0)),
                            Some(<<"late">>))), "absent")

\* a reply in the same month as PlainPost, earlier in the month
ReplyPost ==
  Item(FALSE, Some(PostView(GoodUri, POST_TYPE, Some(Ts(2024, 3, 2, 23, 0, "Z", 0)),
                            Some(<<"re">>))), "obj")

BadTsPost ==
  Item(FALSE, Some(PostView(GoodUri, POST_TYPE, Some(BadTs), Some(<<"when">>))), "absent")

\* the items the upstream serves in the pipeline specification
RawItems == {PlainPost, Repost, NaiveReply, OffsetPost, LateJanPost, ReplyPost, BadTsPost}

\* the items the upstream serves across repeated runs
ArchiveItems == {PlainPost, LateJanPost}

\* HTTP statuses of the upstream
Statuses == {200, 404, 503}

\* cursor values of the response to request number k: absent, empty, or the
\* opaque token of that page (a cursor string is a sequence of characters)
Cursors(k) == {None, Some(<<>>), Some(<<k>>)}

\* the offsets (hours) the system local timezone may have
LocalOffsets == {0, 9}

\* all sequences over S of length at most n
RECURSIVE SeqsUpTo(_, _)
SeqsUpTo(S, n) ==
  IF n = 0 THEN {<<>>}
  ELSE SeqsUpTo(S, n - 1) \cup {Append(q, x) : q \in SeqsUpTo(S, n - 1), x \in S}

\* Python truthiness of data.get("cursor")
Truthy(c) == c # None /\ c # Some(<<>>)

\* faulty variant: server errors pass
RaisesForStatus_ClientOnly(status) == 400 <= status /\ status < 500

\* Response.raise_for_status raises for 4xx and 5xx
RaisesForStatus(status) == 400 <= status /\ status < 600

(* ------------------------------ state ------------------------------- *)

VARIABLES
  pc,         \* where the run stands: idle, resolve, fetch, collect, sort, group, months, index, done, aborted
  exc,        \* the exception that ended the run, "" if none
  handle,     \* HANDLE, the BLUESKY_HANDLE of this process (None when unset)
  tz,         \* UTC offset of the system local timezone
  style_css,  \* docs/style.css: "absent", "default" or "edited"
  user_css,   \* docs/user.css: "absent", "placeholder" or "edited"
  pages,      \* docs/<month>/index.html: month key -> list of articles
  top_index,  \* docs/index.html: None or Some(list of <<month key, count>>)
  written,    \* the files this run has written so far
  net,        \* the HTTP exchanges of this run, oldest first
  actor,      \* build: actor
  items,      \* get_author_feed_public: items
  cursor,     \* get_author_feed_public: cursor
  feed,       \* build: feed
  posts,      \* build: posts
  months      \* build: months

vars == <<pc, exc, handle, tz, style_css, user_css, pages, top_index, written, net,
          actor, items, cursor, feed, posts, months>>

fsVars == <<style_css, user_css, pages, top_index, written>>
locals == <<actor, items, cursor, feed, posts, months>>

NothingWritten == [style |-> FALSE, user |-> FALSE, months |-> {}, index |-> FALSE]

FreshLocals ==
  /\ actor = None /\ items = <<>> /\ cursor = None
  /\ feed = <<>> /\ posts = <<>> /\ months = <<>>

\* the process has started and the module level has run: docs/ exists and is empty
Init ==
  /\ pc = "idle" /\ exc = ""
  /\ handle \in {None, Some("me.bsky.social")}
  /\ tz \in LocalOffsets
  /\ style_css = "absent" /\ user_css = "absent"
  /\ pages = <<>> /\ top_index = None
  /\ written = NothingWritten
  /\ net = <<>>
  /\ FreshLocals

Raise(e) == pc' = "aborted" /\ exc' = e

(* ------------------------------ build ------------------------------- *)

\* faulty variant: user.css is written like style.css
UserCssAfter_Always(found) == "placeholder"

\* the user.css a run leaves, given the one it finds
UserCssAfter(found) == IF found = "absent" THEN "placeholder" ELSE found

\* build() up to the first request: the HANDLE assertion, then write_default_css()
StartBuild ==
  /\ pc = "idle"
  /\ IF handle = None
     THEN /\ Raise("AssertionError")
          /\ UNCHANGED fsVars
     ELSE /\ style_css' = "default"
          /\ user_css' = UserCssAfter(user_css)
          /\ written' = [written EXCEPT !.style = TRUE, !.user = (user_css = "absent")]
          /\ pc' = "resolve"
          /\ UNCHANGED <<exc, pages, top_index>>
  /\ UNCHANGED <<handle, tz, net, locals>>

\* resolve_did_via_public(HANDLE) and the "or HANDLE" of its caller
ResolveHandle ==
  /\ pc = "resolve"
  /\ \E status \in Statuses, did \in {None, Some("did:plc:abc")} :
       /\ net' = Append(net, [api |-> "resolveHandle", cursor |-> None, status |-> status,
                              next |-> None, n |-> 0])
       /\ IF RaisesForStatus(status)
          THEN Raise("HTTPError") /\ UNCHANGED actor
          ELSE /\ actor' = (IF did # None THEN did ELSE handle)
               /\ pc' = "fetch"
               /\ UNCHANGED exc
  /\ UNCHANGED <<handle, tz, fsVars, items, cursor, feed, posts, months>>

\* faulty variant: "and" for "or" in the loop's exit test
LastPage_Both(cur, page) == ~Truthy(cur) /\ page = <<>>

\* the loop of get_author_feed_public ends after this page
LastPage(cur, page) == ~Truthy(cur) \/ page = <<>>

\* the pages issued to getAuthorFeed so far in this run
FeedRequests == SelectSeq(net, LAMBDA x : x.api = "getAuthorFeed")

\* one iteration of the loop of get_author_feed_public, over the items the upstream may serve
FetchPage(Universe) ==
  /\ pc = "fetch"
  /\ \E status \in Statuses, page \in SeqsUpTo(Universe, MaxItems - Len(items)),
        cur \in Cursors(Len(FeedRequests) + 1) :
       \* the scaled-down upstream is exhausted at page MaxPages
       /\ Len(FeedRequests) + 1 = MaxPages =>
            (status >= 400 \/ cur \in {None, Some(<<>>)} \/ page = <<>>)
       /\ net' = Append(net, [api |-> "getAuthorFeed",
                              cursor |-> (IF Truthy(cursor) THEN cursor ELSE None),
                              status |-> status,
                              next |-> (IF RaisesForStatus(status) THEN None ELSE cur),
                              n |-> (IF RaisesForStatus(status) THEN 0 ELSE Len(page))])
       /\ IF status >= 400 /\ RaisesForStatus(status)
          THEN Raise("HTTPError") /\ UNCHANGED <<items, cursor, feed>>
          ELSE /\ items' = items \o page
               /\ cursor' = cur
               /\ IF LastPage(cur, page)
                  THEN pc' = "collect" /\ feed' = items \o page
                  ELSE pc' = "fetch" /\ UNCHANGED feed
               /\ UNCHANGED exc
  /\ UNCHANGED <<handle, tz, fsVars, actor, posts, months>>

\* the post build() appends for an accepted item
Normalize(it) ==
  [dt       |-> extract_created_at(it.post[1].record)[1],
   text     |-> extract_text(it.post[1].record),
   url      |-> at_uri_to_post_url(it.post[1].uri),
   is_reply |-> it.reply = "obj"]

\* an item passes both "continue" tests of the collecting loop
Accepted(it) ==
  /\ is_own_original_post(it)
  /\ extract_created_at(it.post[1].record) # None

RECURSIVE CollectPosts(_)
CollectPosts(f) ==
  IF f = <<>> THEN <<>>
  ELSE IF Accepted(Head(f)) THEN <<Normalize(Head(f))>> \o CollectPosts(Tail(f))
  ELSE CollectPosts(Tail(f))

Collect ==
  /\ pc = "collect"
  /\ posts' = CollectPosts(feed)
  /\ pc' = "sort"
  /\ UNCHANGED <<exc, handle, tz, fsVars, net, actor, items, cursor, feed, months>>

\* faulty variant: reverse=True is missing
RECURSIVE InsertDesc_Ascending(_, _)
InsertDesc_Ascending(sorted, x) ==
  IF sorted = <<>> THEN <<x>>
  ELSE IF DtLess(x.dt, Head(sorted).dt) THEN <<x>> \o sorted
  ELSE <<Head(sorted)>> \o InsertDesc_Ascending(Tail(sorted), x)

\* x goes behind every element that is not older than it
RECURSIVE InsertDesc(_, _)
InsertDesc(sorted, x) ==
  IF sorted = <<>> THEN <<x>>
  ELSE IF DtLess(Head(sorted).dt, x.dt) THEN <<x>> \o sorted
  ELSE <<Head(sorted)>> \o InsertDesc(Tail(sorted), x)

\* list.sort(key=dt, reverse=True): stable, newest first
RECURSIVE SortDesc(_)
SortDesc(ps) ==
  IF ps = <<>> THEN <<>>
  ELSE InsertDesc(SortDesc(SubSeq(ps, 1, Len(ps) - 1)), ps[Len(ps)])

\* the sort compares a naive with an aware datetime
SortRaises(ps) == \E i, j \in 1..Len(ps) : ~Comparable(ps[i].dt, ps[j].dt)

SortPosts ==
  /\ pc = "sort"
  /\ IF SortRaises(posts)
     THEN Raise("TypeError") /\ UNCHANGED posts
     ELSE posts' = SortDesc(posts) /\ pc' = "group" /\ UNCHANGED exc
  /\ UNCHANGED <<handle, tz, fsVars, net, actor, items, cursor, feed, months>>

\* faulty variant: the bucket is assigned, not appended to
AppendTo_Assign(ms, key, p) ==
  [k \in DOMAIN ms \cup {key} |-> IF k = key THEN <<p>> ELSE ms[k]]

\* months.setdefault(key, []).append(p)
AppendTo(ms, key, p) ==
  [k \in DOMAIN ms \cup {key} |-> IF k = key
                                  THEN (IF key \in DOMAIN ms THEN Append(ms[key], p) ELSE <<p>>)
                                  ELSE ms[k]]

RECURSIVE GroupInto(_, _)
GroupInto(ms, ps) ==
  IF ps = <<>> THEN ms
  ELSE GroupInto(AppendTo(ms, month_key(Head(ps).dt), Head(ps)), Tail(ps))

GroupByMonth ==
  /\ pc = "group"
  /\ months' = GroupInto(<<>>, posts)
  /\ pc' = "months"
  /\ UNCHANGED <<exc, handle, tz, fsVars, net, actor, items, cursor, feed, posts>>

\* one <article> of a month page
Article(p) ==
  [date  |-> nice_date(p.dt, tz),
   badge |-> p.is_reply,
   text  |-> p.text,
   href  |-> IF p.url = None THEN <<"None">> ELSE p.url[1]]

MonthPage(arr) == [i \in 1..Len(arr) |-> Article(arr[i])]

\* the loop over months.items(): every month of this run gets its page rewritten
WriteMonthPages ==
  /\ pc = "months"
  /\ pages' = [k \in DOMAIN pages \cup DOMAIN months |->
                 IF k \in DOMAIN months THEN MonthPage(months[k]) ELSE pages[k]]
  /\ written' = [written EXCEPT !.months = DOMAIN months]
  /\ pc' = "index"
  /\ UNCHANGED <<exc, handle, tz, style_css, user_css, top_index, net, locals>>

\* string comparison of two "%Y-%m" keys
KeyLess(a, b) == a[1] < b[1] \/ (a[1] = b[1] /\ a[2] < b[2])

\* sorted(keys, reverse=True)
RECURSIVE SortedKeysDesc(_)
SortedKeysDesc(S) ==
  IF S = {} THEN <<>>
  ELSE LET top == CHOOSE k \in S : \A o \in S : ~KeyLess(k, o)
       IN  <<top>> \o SortedKeysDesc(S \ {top})

WriteTopIndex ==
  /\ pc = "index"
  /\ LET month_keys == SortedKeysDesc(DOMAIN months)
     IN  top_index' = Some([i \in 1..Len(month_keys) |->
                              <<month_keys[i], Len(months[month_keys[i]])>>])
  /\ written' = [written EXCEPT !.index = TRUE]
  /\ pc' = "done"
  /\ UNCHANGED <<exc, handle, tz, style_css, user_css, pages, net, locals>>

(* ------------------------- the environment -------------------------- *)

\* the script is started again (the next scheduled build): a new process,
\* with its own environment, over the docs/ tree the earlier runs left
Restart ==
  /\ pc \in {"done", "aborted"}
  /\ pc' = "idle" /\ exc' = ""
  /\ handle' \in {None, Some("me.bsky.social")}
  /\ written' = NothingWritten
  /\ net' = <<>>
  /\ actor' = None /\ items' = <<>> /\ cursor' = None
  /\ feed' = <<>> /\ posts' = <<>> /\ months' = <<>>
  /\ UNCHANGED <<tz, style_css, user_css, pages, top_index>>

\* between two runs the owner of the site edits a stylesheet
EditCss ==
  /\ pc = "idle"
  /\ \/ user_css' = "edited" /\ UNCHANGED style_css
     \/ style_css # "absent" /\ style_css' = "edited" /\ UNCHANGED user_css
  /\ UNCHANGED <<pc, exc, handle, tz, pages, top_index, written, net, locals>>

(* -------------------------- specifications --------------------------- *)

\* one run of the script over the pipeline items
Next ==
  \/ StartBuild
  \/ ResolveHandle
  \/ FetchPage(RawItems)
  \/ Collect
  \/ SortPosts
  \/ GroupByMonth
  \/ WriteMonthPages
  \/ WriteTopIndex

Spec == Init /\ [][Next]_vars

\* run after run over the same docs/ tree
NextRuns ==
  \/ StartBuild
  \/ ResolveHandle
  \/ FetchPage(ArchiveItems)
  \/ Collect
  \/ SortPosts
  \/ GroupByMonth
  \/ WriteMonthPages
  \/ WriteTopIndex
  \/ Restart
  \/ EditCss

SpecRuns == Init /\ [][NextRuns]_vars

\* createdAt values around month and year boundaries, in several zones
DateItems ==
  {Item(FALSE, Some(PostView(GoodUri, POST_TYPE,
                             Some(Ts(ymd[1], ymd[2], ymd[3], h, mi, z[1], z[2])),
                             Some(<<"t">>))), "absent") :
     ymd \in {<<2023, 12, 31>>, <<2024, 1, 1>>, <<2024, 2, 29>>, <<2024, 3, 1>>,
              <<2024, 3, 15>>, <<2025, 2, 28>>},
     h \in {0, 3, 10, 14, 15, 20, 23},
     mi \in {0, 30},
     z \in {<<"Z", 0>>, <<"none", 0>>, <<"offset", 0>>, <<"offset", 9>>, <<"offset", -5>>}}

\* resource identifiers: absent, any short string of slashes and chunks, well-formed ones
UriValues ==
  {None}
    \cup {Some(s) : s \in SeqsUpTo({"/", "at:", "x"}, 5)}
    \cup {Some(AtUri(did, POST_TYPE, rkey)) :
            did \in {"did:plc:abc", "did:web:example.com"}, rkey \in {"3kxyz", "3kabc"}}

UriItems ==
  {Item(FALSE, Some(PostView(u, POST_TYPE, Some(Ts(2024, 3, 15, 10, 0, "Z", 0)),
                             Some(<<"t">>))), "absent") : u \in UriValues}

\* every shape the classifier tells apart
ShapeItems ==
  {Item(reason, post, reply) :
     reason \in BOOLEAN,
     post \in {None} \cup
              {Some(PostView(GoodUri, type, createdAt, text)) :
                 type \in {POST_TYPE, "app.bsky.feed.like"},
                 createdAt \in {None, Some(BadTs), Some(Ts(2024, 3, 15, 10, 0, "Z", 0)),
                                Some(Ts(2024, 3, 15, 10, 0, "none", 0))},
                 text \in {None, Some(<<"x", "&", "y">>)}},
     reply \in {"absent", "null", "obj"}}

\* get_author_feed_public has just returned a feed of one item
InitItem ==
  /\ pc = "collect" /\ exc = ""
  /\ handle = Some("me.bsky.social")
  /\ tz \in LocalOffsets
  /\ style_css = "default" /\ user_css = "placeholder"
  /\ pages = <<>> /\ top_index = None
  /\ written = [style |-> TRUE, user |-> TRUE, months |-> {}, index |-> FALSE]
  /\ net = <<[api |-> "resolveHandle", cursor |-> None, status |-> 200, next |-> None, n |-> 0],
             [api |-> "getAuthorFeed", cursor |-> None, status |-> 200, next |-> None, n |-> 1]>>
  /\ actor = Some("did:plc:abc")
  /\ \E it \in DateItems \cup UriItems \cup ShapeItems : items = <<it>> /\ feed = <<it>>
  /\ cursor = None /\ posts = <<>> /\ months = <<>>

\* build() from the collecting loop on
NextItem ==
  \/ Collect
  \/ SortPosts
  \/ GroupByMonth
  \/ WriteMonthPages
  \/ WriteTopIndex

SpecItem == InitItem /\ [][NextItem]_vars

(* ------------------------------ claims ------------------------------ *)

\* an exchange after which no further page may be asked for
EndsFeed(x) == x.status >= 400 \/ x.next \in {None, Some(<<>>)} \/ x.n = 0

Built == pc \in {"months", "index", "done"}

Count(seq, x) == Cardinality({i \in 1..Len(seq) : seq[i] = x})

RECURSIVE SumOfCounts(_)
SumOfCounts(entries) ==
  IF entries = <<>> THEN 0 ELSE Head(entries)[2] + SumOfCounts(Tail(entries))

\* lexicographic order of two tuples of numbers of the same length
RECURSIVE TupleLess(_, _)
TupleLess(a, b) ==
  /\ a # <<>>
  /\ \/ Head(a) < Head(b)
     \/ (Head(a) = Head(b) /\ TupleLess(Tail(a), Tail(b)))

\* C1: the first getAuthorFeed request carries no cursor, every later one
\* follows a page that had both a cursor and items and carries exactly that
\* page's cursor, and once a page without cursor or without items has come
\* back the fetch loop is over.
C1_FetchStopsAtLastPage ==
  LET fr == FeedRequests
  IN  /\ \A i \in 1..Len(fr) :
           /\ i = 1 => fr[i].cursor = None
           /\ i > 1 => ~EndsFeed(fr[i - 1]) /\ fr[i].cursor = fr[i - 1].next
      /\ (fr # <<>> /\ EndsFeed(fr[Len(fr)])) => pc # "fetch"

\* C1 witness: a second page was asked for with the first page's cursor, and
\* the fetch ended on a page that had items but no cursor
C1_Witness ==
  /\ pc = "collect"
  /\ Len(FeedRequests) = 2
  /\ FeedRequests[2].cursor = Some(<<1>>)
  /\ FeedRequests[2].next = None /\ FeedRequests[2].n > 0

\* C2: an exchange with an error status is the last exchange of the run, the
\* run is aborted by it, and the run has written no month page and no
\* top-level index (docs/ held none when the run began).
C2_HttpErrorAborts ==
  \A i \in 1..Len(net) :
    net[i].status >= 400 =>
      /\ i = Len(net)
      /\ pc = "aborted" /\ exc = "HTTPError"
      /\ written.months = {} /\ ~written.index
      /\ pages = <<>> /\ top_index = None

\* C2 witness: the second feed page failed with a server error after a first
\* page that delivered an item
C2_Witness ==
  /\ pc = "aborted"
  /\ Len(FeedRequests) = 2
  /\ FeedRequests[1].n > 0
  /\ FeedRequests[2].status = 503

\* the raw texts of the fetched items that carry a "reason"
RepostTexts ==
  {feed[i].post[1].record.text[1] :
     i \in {j \in 1..Len(feed) : /\ feed[j].reason
                                 /\ feed[j].post # None
                                 /\ feed[j].post[1].record.text # None}}

\* the fetched items without "reason" whose createdAt is written in month k
OwnItemsOfMonth(k) ==
  {i \in 1..Len(feed) : /\ ~feed[i].reason
                        /\ feed[i].post # None
                        /\ feed[i].post[1].record.createdAt # None
                        /\ feed[i].post[1].record.createdAt[1].iso
                        /\ k = <<feed[i].post[1].record.createdAt[1].y,
                                 feed[i].post[1].record.createdAt[1].mo>>}

\* C3: no post with the text of a fetched "reason" item (every such item of
\* the upstream has a text of its own) is in the post list, in a month bucket
\* or on a month page, and the index counts for a month no more posts than
\* the feed has items without "reason" in that month.
C3_RepostsExcluded ==
  /\ \A i \in 1..Len(posts) : posts[i].text \notin RepostTexts
  /\ \A k \in DOMAIN months : \A i \in 1..Len(months[k]) : months[k][i].text \notin RepostTexts
  /\ \A k \in DOMAIN pages : \A i \in 1..Len(pages[k]) : pages[k][i].text \notin RepostTexts
  /\ top_index # None =>
       \A i \in 1..Len(top_index[1]) :
         top_index[1][i][2] <= Cardinality(OwnItemsOfMonth(top_index[1][i][1]))

\* C3 witness: a finished run over a feed of a repost and a post of the same month
C3_Witness ==
  /\ pc = "done"
  /\ \E i, j \in 1..Len(feed) : feed[i] = Repost /\ feed[j] = PlainPost
  /\ top_index = Some(<< <<(<<2024, 3>>), 1>> >>)

\* every post that is in the list or in a bucket
AllPosts ==
  {posts[i] : i \in 1..Len(posts)}
    \cup UNION {{months[k][i] : i \in 1..Len(months[k])} : k \in DOMAIN months}

\* C4: once grouped, every bucket holds only posts of its own month key,
\* every post is in the bucket of its month key as often as it is in the post
\* list, and the counts of the top-level index are the bucket sizes and add
\* up to the number of posts.
C4_GroupingIsPartition ==
  Built =>
    /\ \A k \in DOMAIN months :
         \A i \in 1..Len(months[k]) : <<months[k][i].dt.y, months[k][i].dt.mo>> = k
    /\ \A p \in AllPosts :
         /\ <<p.dt.y, p.dt.mo>> \in DOMAIN months
         /\ Count(months[<<p.dt.y, p.dt.mo>>], p) = Count(posts, p)
    /\ pc = "done" =>
         /\ {top_index[1][i][1] : i \in 1..Len(top_index[1])} = DOMAIN months
         /\ Len(top_index[1]) = Cardinality(DOMAIN months)
         /\ \A i \in 1..Len(top_index[1]) :
              top_index[1][i][2] = Len(months[top_index[1][i][1]])
         /\ SumOfCounts(top_index[1]) = Len(posts)

\* C4 witness: a finished run over a feed that delivered the same post twice
C4_Witness ==
  /\ pc = "done"
  /\ Len(posts) = 2 /\ posts[1] = posts[2]
  /\ top_index = Some(<< <<month_key(posts[1].dt), 2>> >>)

\* the instant of a post, to the minute
InstantOf(p) == <<UtcHours(p.dt, tz), p.dt.mi>>

\* C5: in every bucket no post is followed by a newer one, on every month
\* page of the run no article is followed by one with a later displayed
\* time, and the month keys of the top-level index strictly descend.
C5_NewestFirst ==
  /\ \A k \in DOMAIN months :
       \A i, j \in 1..Len(months[k]) :
         i < j => ~TupleLess(InstantOf(months[k][i]), InstantOf(months[k][j]))
  /\ \A k \in DOMAIN pages :
       \A i, j \in 1..Len(pages[k]) :
         i < j => ~TupleLess(pages[k][i].date, pages[k][j].date)
  /\ top_index # None =>
       \A i, j \in 1..Len(top_index[1]) :
         i < j => TupleLess(top_index[1][j][1], top_index[1][i][1])

\* C5 witness: the upstream delivered two posts of one month oldest first
C5_Witness ==
  /\ pc = "done"
  /\ feed = <<ReplyPost, PlainPost>>
  /\ Len(pages[<<2024, 3>>]) = 2

\* a step of a run: every step but the owner's edit between runs
RunStep == pc # "idle" \/ pc' # "idle"

\* what C6 says of user.css: a run leaves an existing user.css as it is, and
\* writes user.css only when it found none
UserCssRespected ==
  /\ (RunStep /\ user_css # "absent") => user_css' = user_css
  /\ (written'.user /\ ~written.user) => user_css = "absent"

\* C6, as stated: user.css is respected, and every run that has ended,
\* finished or aborted, has rewritten style.css.
C6_StyleOnEveryRun ==
  [][/\ UserCssRespected
     /\ pc' \in {"done", "aborted"} => (written'.style /\ style_css' = "default")]_vars

\* C6, amended: user.css is respected, and every run that got past the
\* HANDLE assertion has rewritten style.css with the default sheet; a run
\* stopped by the assertion writes no file.
C6_UserCssKept ==
  [][/\ UserCssRespected
     /\ (pc = "idle" /\ pc' # "idle" /\ handle # None) =>
          (written'.style /\ style_css' = "default")
     /\ (pc' \in {"done", "aborted"} /\ exc' # "AssertionError") =>
          (written'.style /\ style_css' = "default")
     /\ (pc' = "aborted" /\ exc' = "AssertionError") =>
          (written' = NothingWritten /\ style_css' = style_css /\ user_css' = user_css)]_vars

\* C6 witness: a finished run that found stylesheets edited by the owner
\* rewrote style.css and left user.css alone
C6_Witness ==
  /\ pc = "done"
  /\ user_css = "edited" /\ ~written.user
  /\ style_css = "default" /\ written.style
  /\ top_index # None /\ top_index[1] # <<>>

\* the createdAt of the one item of the feed, and the UTC offset it stands for
TheTs == feed[1].post[1].record.createdAt[1]
OffsetOf(ts) == IF ts.zone = "Z" THEN 0 ELSE IF ts.zone = "offset" THEN ts.off ELSE tz

\* date is a valid <<year, month, day, hour, minute>> that, read as a +09:00
\* clock time, is the instant of ts
ShowsInstantOf(date, ts) ==
  /\ date[2] \in 1..12 /\ date[3] \in 1..DaysInMonth(date[1], date[2]) /\ date[4] \in 0..23
  /\ (DaysBeforeYear(date[1]) + DaysBeforeMonth(date[1], date[2]) + date[3]) * 24 + date[4] - 9
       = (DaysBeforeYear(ts.y) + DaysBeforeMonth(ts.y, ts.mo) + ts.d) * 24 + ts.h - OffsetOf(ts)
  /\ date[5] = ts.mi

\* the UTC calendar month of the instant of ts
UtcMonthOf(ts) ==
  CHOOSE k \in {<<ts.y - 1, 12>>, <<ts.y, ts.mo - 1>>, <<ts.y, ts.mo>>, <<ts.y, ts.mo + 1>>,
                <<ts.y + 1, 1>>} :
    /\ k[2] \in 1..12
    /\ LET h == (DaysBeforeYear(ts.y) + DaysBeforeMonth(ts.y, ts.mo) + ts.d) * 24 + ts.h
                  - OffsetOf(ts)
           first == (DaysBeforeYear(k[1]) + DaysBeforeMonth(k[1], k[2]) + 1) * 24
       IN  first <= h /\ h < first + DaysInMonth(k[1], k[2]) * 24

\* C7, as stated: the accepted post of a one-item feed is filed under the UTC
\* month of its instant, and its page shows the +09:00 time of that instant.
C7_FiledByUtcMonth ==
  (pc = "done" /\ posts # <<>>) =>
    /\ DOMAIN months = {UtcMonthOf(TheTs)}
    /\ DOMAIN pages = {UtcMonthOf(TheTs)}
    /\ \A k \in DOMAIN pages : Len(pages[k]) = 1 /\ ShowsInstantOf(pages[k][1].date, TheTs)

\* C7, amended: the accepted post of a one-item feed is filed under the year
\* and month its createdAt is written with, in the offset it is written in,
\* and its page shows the +09:00 time of the same instant.
C7_FiledByWrittenMonth ==
  (pc = "done" /\ posts # <<>>) =>
    /\ DOMAIN months = {<<TheTs.y, TheTs.mo>>}
    /\ DOMAIN pages = {<<TheTs.y, TheTs.mo>>}
    /\ top_index = Some(<< <<(<<TheTs.y, TheTs.mo>>), 1>> >>)
    /\ \A k \in DOMAIN pages : Len(pages[k]) = 1 /\ ShowsInstantOf(pages[k][1].date, TheTs)

\* C7 witness: 2024-03-01T03:00+09:00 is filed under 2024-03 and shown as
\* 1 March 03:00, while its UTC month is February
C7_Witness ==
  /\ pc = "done"
  /\ posts # <<>>
  /\ TheTs = Ts(2024, 3, 1, 3, 0, "offset", 9)
  /\ DOMAIN pages = {<<2024, 3>>}
  /\ pages[<<2024, 3>>][1].date = <<2024, 3, 1, 3, 0>>
  /\ UtcMonthOf(TheTs) = <<2024, 2>>

\* the fetched item i gets through the classifier of the specification
WellFormedPost(i) ==
  /\ ~feed[i].reason
  /\ feed[i].post # None
  /\ feed[i].post[1].record.type = POST_TYPE

HasTimestamp(i) ==
  /\ feed[i].post[1].record.createdAt # None
  /\ feed[i].post[1].record.createdAt[1].iso

\* s is at://<account id>/<collection>/<record key>
IsAtUri(s) ==
  /\ Len(s) = 8
  /\ s[1] = "at:" /\ s[2] = "/" /\ s[3] = "/" /\ s[5] = "/" /\ s[7] = "/"
  /\ s[4] # "/" /\ s[6] # "/" /\ s[8] # "/"

\* C8: a run aborts only for a missing HANDLE or an HTTP error, and after the
\* collecting loop the post list holds one post for every fetched post item
\* that has a parseable createdAt and none for the others.
C8_MalformedNeverAborts ==
  /\ pc = "aborted" => exc \in {"AssertionError", "HTTPError"}
  /\ pc \in {"sort", "group", "months", "index", "done"} =>
       Len(posts) = Cardinality({i \in 1..Len(feed) : WellFormedPost(i) /\ HasTimestamp(i)})

\* C9: the post of a one-item feed has the permalink
\* https://bsky.app/profile/<account id>/post/<record key> when its uri is
\* at://<account id>/<collection>/<record key>, and none otherwise.
C9_Permalink ==
  (pc \in {"sort", "group", "months", "index", "done"} /\ posts # <<>>) =>
    LET uri == feed[1].post[1].uri
    IN  IF uri # None /\ IsAtUri(uri[1])
        THEN posts[1].url = Some(<<"https://bsky.app/profile/", uri[1][4], "/post/", uri[1][8]>>)
        ELSE posts[1].url = None

\* C10: after a finished run the month pages in docs/ are those of the months
\* of this run's feed, each listed in the top-level index and showing this
\* run's posts of that month.
C10_PagesOfLatestRun ==
  pc = "done" =>
    /\ DOMAIN pages = DOMAIN months
    /\ DOMAIN pages = {top_index[1][i][1] : i \in 1..Len(top_index[1])}
    /\ \A k \in DOMAIN pages : pages[k] = MonthPage(months[k])

====
